---- MODULE Spec2Model ----
(***************************************************************************)
(* Model of rollup-plugin-ts' configuration normalizer                     *)
(* (src/util/get-parsed-command-line/get-parsed-command-line.ts) and of    *)
(* the resolve cache accessor pickResolvedModule.                          *)
(*                                                                         *)
(* JavaScript values are encoded as follows.                               *)
(*  - A string that is inspected character-wise (a path, a file name, an   *)
(*    error message) is a sequence of tokens; concatenation is \o and      *)
(*    String.prototype.endsWith is a suffix test on the sequence.          *)
(*  - An option value is a TLA+ string; typeof is decided by the set the   *)
(*    value belongs to (Numbers, Booleans, otherwise a JS string).         *)
(*  - An options object is a function from the names of its own            *)
(*    properties to their values; a property that is absent (undefined)    *)
(*    is not in the DOMAIN.                                                *)
(***************************************************************************)
EXTENDS Integers, Sequences, FiniteSets, TLC

VARIABLES
    disk,           \* content of <cwd>/tsconfig.json for the project directory
    tsconfig,       \* the caller's configuration input object, as it is now
    supplied,       \* the same object as the caller built it (history)
    calls,          \* number of getParsedCommandLine calls made with it
    result,         \* outcome of the last getParsedCommandLine call
    ref,            \* an ExtendedResolvedModule record
    preferAmbient,  \* the flag handed to pickResolvedModule
    picked,         \* what pickResolvedModule returned
    base,           \* effective base options shared by the four variants
    forcedV,        \* forced overrides shared by the four variants
    byVariant       \* per variant: the options getParsedCommandLine returned

vars == <<disk, tsconfig, supplied, calls, result, ref, preferAmbient, picked,
          base, forcedV, byVariant>>
normalizerVars == <<disk, tsconfig, supplied, calls, result>>
pickVars == <<ref, preferAmbient, picked>>
variantVars == <<base, forcedV, byVariant>>

-----------------------------------------------------------------------------
(* Bounds *)

\* calls made with one configuration input object
MaxCalls == 2
\* length of the file list of a caller-built ParsedCommandLine
MaxFileNames == 2

-----------------------------------------------------------------------------
(* Strings as token sequences *)

\* the value `undefined` of an optional string
Undefined == <<"undefined">>

EndsWith(s, suffix) ==
    /\ Len(s) >= Len(suffix)
    /\ SubSeq(s, Len(s) - Len(suffix) + 1, Len(s)) = suffix

\* ".d.ts"
DECLARATION_EXTENSION == <<".d", ".ts">>

Proj == <<"/", "proj">>
Bare == <<"/", "bare">>
Cwds == {Proj, Bare}

\* a ?? b
Nullish(a, b) == IF a # Undefined THEN a ELSE b

-----------------------------------------------------------------------------
(* pickResolvedModule *)

ConcretePaths == {<<"/", "src", "/", "a", ".d", ".ts">>, <<"/", "src", "/", "b", ".ts">>}
AmbientPaths == {<<"/", "lib", "/", "global", ".d", ".ts">>, <<"/", "lib", "/", "dom", ".d", ".ts">>}
\* the empty string is a defined (non-nullish) value
FileNameValues == {Undefined, <<>>} \cup ConcretePaths \cup AmbientPaths

ExtendedResolvedModule ==
    [resolvedFileName : FileNameValues, resolvedAmbientFileName : FileNameValues]

pickResolvedModuleFalsy(resolvedModule, prefer) ==
    IF prefer
    THEN IF resolvedModule.resolvedAmbientFileName \notin {Undefined, <<>>}
         THEN resolvedModule.resolvedAmbientFileName
         ELSE resolvedModule.resolvedFileName
    ELSE resolvedModule.resolvedFileName

pickResolvedModuleAmbientLeak(resolvedModule, prefer) ==
    IF prefer
    THEN Nullish(resolvedModule.resolvedAmbientFileName, resolvedModule.resolvedFileName)
    ELSE Nullish(resolvedModule.resolvedFileName, resolvedModule.resolvedAmbientFileName)

pickResolvedModule(resolvedModule, prefer) ==
    IF prefer
    THEN Nullish(resolvedModule.resolvedAmbientFileName, resolvedModule.resolvedFileName)
    ELSE resolvedModule.resolvedFileName

NotPicked == <<"not called">>

-----------------------------------------------------------------------------
(* Option values and options objects *)

Numbers == {"1", "2"}
Booleans == {"true", "false"}
\* spellings of the target option in a configuration file; "1" = ES5, "2" = ES2015
RawTargets == {"ES5", "es5", "ES2015"}

typeof(v) ==
    IF v \in Numbers THEN "number" ELSE IF v \in Booleans THEN "boolean" ELSE "string"

OptionKeys == {"target", "declaration"}

Empty == [k \in {} |-> ""]

\* options objects whose target is drawn from T and whose declaration from D
OptionMaps(T, D) ==
    {m \in UNION {[S -> T \cup D] : S \in SUBSET OptionKeys} :
        \A k \in DOMAIN m : IF k = "target" THEN m[k] \in T ELSE m[k] \in D}

\* resolved CompilerOptions: enums hold numeric codes
CompilerOptionsSet == OptionMaps(Numbers, Booleans)
\* JSON-serializable options: enums hold their spelling
RawOptionsSet == OptionMaps(RawTargets, Booleans)

\* {...a, ...b}
Spread(a, b) ==
    [k \in DOMAIN a \cup DOMAIN b |-> IF k \in DOMAIN b THEN b[k] ELSE a[k]]

-----------------------------------------------------------------------------
(* The TypeScript configuration parser, as getParsedCommandLine uses it *)

\* convertJsonOption: an enum option is looked up by its lower-cased spelling,
\* a boolean option must hold a boolean; anything else is reported and dropped
ConvertedValue(k, v) ==
    IF k = "target"
    THEN IF v \in {"ES5", "es5"} THEN "1" ELSE IF v = "ES2015" THEN "2" ELSE "invalid"
    ELSE IF typeof(v) = "boolean" THEN v ELSE "invalid"

convertCompilerOptionsFromJson(raw) ==
    [k \in {j \in DOMAIN raw : ConvertedValue(j, raw[j]) # "invalid"} |->
        ConvertedValue(k, raw[k])]

SourceFiles(dir) ==
    IF dir = Proj
    THEN <<Proj \o <<"/", "index", ".ts">>, Proj \o <<"/", "types", ".d", ".ts">>,
           Proj \o <<"/", "view", ".tsx">>>>
    ELSE <<Bare \o <<"/", "globals", ".d", ".ts">>, Bare \o <<"/", "main", ".ts">>>>

\* a configuration-file JSON value: compilerOptions ({} when absent) and the
\* "files" list (<<>> when absent: every source file under basePath is included)
Json(compilerOptions, files) == [compilerOptions |-> compilerOptions, files |-> files]
EmptyJson == Json(Empty, <<>>)

\* parseJsonConfigFileContent(json, sys, basePath, existingOptions):
\* existingOptions take precedence over the options converted from json
parseJsonConfigFileContent(json, basePath, existingOptions) ==
    [options |-> Spread(convertCompilerOptionsFromJson(json.compilerOptions), existingOptions),
     fileNames |-> IF json.files = <<>>
                   THEN SourceFiles(basePath)
                   ELSE [i \in 1..Len(json.files) |-> basePath \o <<"/">> \o json.files[i]]]

\* the text of a configuration file; "" is EmptyText
EmptyText == [text |-> "empty"]
JsonText(json) == [text |-> "json", json |-> json]

\* parseConfigFileTextToJson(fileName, text).config
parseConfigFileTextToJson(text) ==
    IF text = EmptyText THEN EmptyJson ELSE text.json

-----------------------------------------------------------------------------
(* File system and paths *)

TsconfigJson == <<"tsconfig", ".json">>
CustomJson == <<"tsconfig", ".custom", ".json">>
ProjTsconfig == Proj \o <<"/">> \o TsconfigJson

\* path.isAbsolute / path.join
isAbsolute(path) == Len(path) > 0 /\ path[1] = "/"
ensureAbsolute(root, path) == IF isAbsolute(path) THEN path ELSE root \o <<"/">> \o path

\* the only configuration file on disk is /proj/tsconfig.json
fileExistsSync(path) == path = ProjTsconfig
readFileSync(d, path) == JsonText(d)

FilesChoices == {<<>>, <<<<"types", ".d", ".ts">>, <<"index", ".ts">>>>}
Disks == {Json(o, f) : o \in RawOptionsSet, f \in FilesChoices}

-----------------------------------------------------------------------------
(* The configuration input: IGetParsedCommandLineOptions["tsconfig"] *)

NoPath == <<>>
\* resolver functions a caller may supply: CompilerOptions -> CompilerOptions
Hooks == {"identity", "declarationOff", "fresh"}
NoHook == "none"

CallHook(h, o) ==
    CASE h = "identity" -> o
      [] h = "declarationOff" -> Spread(o, [declaration |-> "false"])
      [] h = "fresh" -> [target |-> "2"]

\* type: what typeof/null tests see; fields: the own properties other than
\* compiler options; props: the own properties that are compiler options
Ts(type, str, fn, fields, options, fileNames, hook, fileName, props) ==
    [type |-> type, str |-> str, fn |-> fn, fields |-> fields, options |-> options,
     fileNames |-> fileNames, hook |-> hook, fileName |-> fileName, props |-> props]

AbsentTs == Ts("undefined", NoPath, NoHook, {}, Empty, <<>>, NoHook, NoPath, Empty)
StringTs(path) == [AbsentTs EXCEPT !.type = "string", !.str = path]
FunctionTs(h) == [AbsentTs EXCEPT !.type = "function", !.fn = h]
ParsedTs(o, f) ==
    [AbsentTs EXCEPT !.type = "object", !.fields = {"options", "fileNames"},
                     !.options = o, !.fileNames = f]
ResolverTs(name, h) ==
    [AbsentTs EXCEPT !.type = "object", !.fields = {"fileName", "hook"},
                     !.fileName = name, !.hook = h]
OptionsTs(p) == [AbsentTs EXCEPT !.type = "object", !.props = p]
\* an object carrying both an `options` and a `hook` property
OptionsAndHookTs(o, h) ==
    [AbsentTs EXCEPT !.type = "object", !.fields = {"options", "hook"},
                     !.options = o, !.hook = h]

ConfigPaths == {TsconfigJson, CustomJson, ProjTsconfig}
ListedFiles == {Proj \o <<"/", "lib", ".d", ".ts">>, Proj \o <<"/", "app", ".ts">>}
FileLists == UNION {[1..n -> ListedFiles] : n \in 0..MaxFileNames}

Tsconfigs ==
    {AbsentTs}
    \cup {StringTs(path) : path \in ConfigPaths}
    \cup {FunctionTs(h) : h \in Hooks}
    \cup {ParsedTs(o, f) : o \in CompilerOptionsSet, f \in FileLists}
    \cup {ResolverTs(name, h) : name \in ConfigPaths, h \in Hooks}
    \cup {OptionsTs(p) : p \in CompilerOptionsSet \cup RawOptionsSet}
    \cup {OptionsAndHookTs([target |-> "1"], h) : h \in {"identity"}}

ForcedOptions ==
    {Empty, [declaration |-> "true"], [target |-> "1"],
     [target |-> "2", declaration |-> "true"]}

\* `k in tsconfig`
In(k, t) == k \in t.fields \/ k \in DOMAIN t.props

\* tsconfig != null && typeof tsconfig !== "string" && typeof tsconfig !== "function"
IsObject(t) == t.type # "undefined" /\ t.type # "string" /\ t.type # "function"

isParsedCommandLine(t) == IsObject(t) /\ In("options", t) /\ ~In("hook", t)

isRawCompilerOptions(t) == IsObject(t) /\ ~In("options", t) /\ ~In("hook", t)

isTsConfigResolver(t) == t.type # "undefined" /\ t.type = "function"

isTsConfigResolverWithFileName(t) == IsObject(t) /\ ~In("options", t) /\ In("hook", t)

isCompilerOptions(t) ==
    /\ IsObject(t)
    /\ ~In("options", t)
    /\ ~In("hook", t)
    /\ \E k \in {"module", "target", "jsx", "moduleResolution", "newLine"} :
          In(k, t) /\ typeof(t.props[k]) = "number"

-----------------------------------------------------------------------------
(* getParsedCommandLine *)

NoError == [name |-> "none", message |-> <<>>]
NoParsedCommandLine == [options |-> Empty, fileNames |-> <<>>]

\* a normal completion of the branch: the ParsedCommandLine built so far, the
\* original options, the caller's object as the branch leaves it, and how often
\* the hook was invoked and a file was read
Returned(pcl, original, t, hookCalls, fileReads) ==
    [threw |-> FALSE, error |-> NoError, parsedCommandLine |-> pcl,
     originalCompilerOptions |-> original, tsconfig |-> t,
     hookCalls |-> hookCalls, fileReads |-> fileReads, unfiltered |-> pcl.fileNames]

Thrown(name, message, t) ==
    [threw |-> TRUE, error |-> [name |-> name, message |-> message],
     parsedCommandLine |-> NoParsedCommandLine, originalCompilerOptions |-> Empty,
     tsconfig |-> t, hookCalls |-> 0, fileReads |-> 0, unfiltered |-> <<>>]

\* lines 77-81: the caller's object is updated in place and becomes the result
ParsedCommandLineBranch(t, forced) ==
    LET merged == Spread(t.options, forced)
    IN  Returned([options |-> merged, fileNames |-> t.fileNames], t.options,
                 [t EXCEPT !.options = merged], 0, 0)

\* lines 84-90
CompilerOptionsBranch(cwd, t, forced) ==
    Returned(parseJsonConfigFileContent(EmptyJson, cwd, Spread(t.props, forced)),
             parseJsonConfigFileContent(EmptyJson, cwd, t.props).options, t, 0, 0)

RawTreatedAsCompilerOptions(cwd, t, forced) ==
    Returned(parseJsonConfigFileContent(EmptyJson, cwd, Spread(t.props, forced)),
             parseJsonConfigFileContent(EmptyJson, cwd, t.props).options, t, 0, 0)

\* lines 93-96
RawCompilerOptionsBranch(cwd, t, forced) ==
    Returned(parseJsonConfigFileContent(Json(t.props, <<>>), cwd, forced),
             parseJsonConfigFileContent(Json(t.props, <<>>), cwd, Empty).options, t, 0, 0)

HookedOptionsUnforced(h, options, forced) == CallHook(h, options)

\* lines 123-124, 127-128: {...hook(options), ...forcedCompilerOptions}
HookedOptions(h, options, forced) == Spread(CallHook(h, options), forced)

\* line 115
MissingMessage(tsconfigPath) ==
    <<"The given tsconfig: '">> \o tsconfigPath \o <<"' doesn't exist!">>

\* lines 104-116: a missing file is fatal exactly when the caller provided a tsconfig
MissingConfigTolerated(exists, hasProvidedTsconfig) == FALSE

MissingConfigIsFatal(exists, hasProvidedTsconfig) == ~exists /\ hasProvidedTsconfig

\* lines 99-130
ResolveBranch(d, cwd, t, forced) ==
    LET hasProvidedTsconfig == t.type # "undefined"
        pathIsString == isTsConfigResolverWithFileName(t) \/ ~IsObject(t)
        given == IF isTsConfigResolverWithFileName(t) THEN t.fileName
                 ELSE IF t.type # "undefined" /\ ~isTsConfigResolver(t) THEN t.str
                 ELSE TsconfigJson
        tsconfigPath == ensureAbsolute(cwd, given)
        exists == fileExistsSync(tsconfigPath)
        tsconfigContent == IF exists THEN readFileSync(d, tsconfigPath) ELSE EmptyText
        json == parseConfigFileTextToJson(tsconfigContent)
        original == parseJsonConfigFileContent(json, cwd, Empty).options
        pcl == parseJsonConfigFileContent(json, cwd, forced)
        reads == IF exists THEN 1 ELSE 0
    IN  IF ~pathIsString
        THEN \* an object reaches path.isAbsolute, which rejects a non-string
             Thrown("TypeError", <<"The \"path\" argument must be of type string">>, t)
        ELSE IF MissingConfigIsFatal(exists, hasProvidedTsconfig)
        THEN Thrown("ReferenceError", MissingMessage(tsconfigPath), t)
        ELSE IF isTsConfigResolver(t)
        THEN Returned([pcl EXCEPT !.options = HookedOptions(t.fn, pcl.options, forced)],
                      HookedOptions(t.fn, original, forced), t, 2, reads)
        ELSE IF isTsConfigResolverWithFileName(t)
        THEN Returned([pcl EXCEPT !.options = HookedOptions(t.hook, pcl.options, forced)],
                      HookedOptions(t.hook, original, forced), t, 2, reads)
        ELSE Returned(pcl, original, t, 0, reads)

AnyTypeScriptFile(fileNames) ==
    SelectSeq(fileNames, LAMBDA file : EndsWith(file, <<".ts">>))

\* line 133
DeclarationFilesOnly(fileNames) ==
    SelectSeq(fileNames, LAMBDA file : EndsWith(file, DECLARATION_EXTENSION))

\* lines 71-139; parsedCommandLine aliases the caller's object in the first branch,
\* so the assignment of line 133 reaches it too
getParsedCommandLine(d, cwd, t, forced) ==
    LET out == IF isParsedCommandLine(t) THEN ParsedCommandLineBranch(t, forced)
               ELSE IF isCompilerOptions(t) THEN CompilerOptionsBranch(cwd, t, forced)
               ELSE IF isRawCompilerOptions(t) THEN RawCompilerOptionsBranch(cwd, t, forced)
               ELSE ResolveBranch(d, cwd, t, forced)
        kept == DeclarationFilesOnly(out.parsedCommandLine.fileNames)
    IN  IF out.threw THEN out
        ELSE [out EXCEPT !.parsedCommandLine.fileNames = kept,
                         !.tsconfig = IF isParsedCommandLine(t)
                                      THEN [@ EXCEPT !.fileNames = kept] ELSE @]

-----------------------------------------------------------------------------
(* The normalizer as a state machine: a caller holds one configuration input
   and calls getParsedCommandLine with it, any working directory and any forced
   options, up to MaxCalls times *)

NotCalled ==
    [called |-> FALSE, cwd |-> Proj, forced |-> Empty, given |-> AbsentTs,
     out |-> Thrown("none", <<>>, AbsentTs)]

NormalizerIdle ==
    /\ disk = EmptyJson /\ tsconfig = AbsentTs /\ supplied = AbsentTs
    /\ calls = 0 /\ result = NotCalled
PickIdle == ref = [resolvedFileName |-> Undefined, resolvedAmbientFileName |-> Undefined]
              /\ preferAmbient = FALSE /\ picked = NotPicked
VariantsIdle == base = Empty /\ forcedV = Empty /\ byVariant = Empty

Init ==
    /\ disk \in Disks
    /\ tsconfig \in Tsconfigs
    /\ supplied = tsconfig
    /\ calls = 0
    /\ result = NotCalled
    /\ PickIdle
    /\ VariantsIdle

Invoke(cwd, forced) ==
    LET out == getParsedCommandLine(disk, cwd, tsconfig, forced)
    IN  /\ calls < MaxCalls
        /\ tsconfig' = out.tsconfig
        /\ result' = [called |-> TRUE, cwd |-> cwd, forced |-> forced,
                      given |-> tsconfig, out |-> out]
        /\ calls' = calls + 1
        /\ UNCHANGED <<disk, supplied, pickVars, variantVars>>

CallWithParsedCommandLine ==
    /\ isParsedCommandLine(tsconfig)
    /\ \E cwd \in Cwds, forced \in ForcedOptions : Invoke(cwd, forced)

CallWithCompilerOptions ==
    /\ ~isParsedCommandLine(tsconfig) /\ isCompilerOptions(tsconfig)
    /\ \E cwd \in Cwds, forced \in ForcedOptions : Invoke(cwd, forced)

CallWithRawCompilerOptions ==
    /\ ~isParsedCommandLine(tsconfig) /\ ~isCompilerOptions(tsconfig)
    /\ isRawCompilerOptions(tsconfig)
    /\ \E cwd \in Cwds, forced \in ForcedOptions : Invoke(cwd, forced)

CallWithPathOrResolver ==
    /\ ~isParsedCommandLine(tsconfig) /\ ~isCompilerOptions(tsconfig)
    /\ ~isRawCompilerOptions(tsconfig)
    /\ \E cwd \in Cwds, forced \in ForcedOptions : Invoke(cwd, forced)

Next ==
    \/ CallWithParsedCommandLine
    \/ CallWithCompilerOptions
    \/ CallWithRawCompilerOptions
    \/ CallWithPathOrResolver

Spec == Init /\ [][Next]_vars

-----------------------------------------------------------------------------
(* pickResolvedModule applied to every resolution record *)

InitPick ==
    /\ ref \in ExtendedResolvedModule
    /\ preferAmbient \in BOOLEAN
    /\ picked = NotPicked
    /\ NormalizerIdle
    /\ VariantsIdle

Pick ==
    /\ picked = NotPicked
    /\ picked' = pickResolvedModule(ref, preferAmbient)
    /\ UNCHANGED <<ref, preferAmbient, normalizerVars, variantVars>>

NextPick == Pick

SpecPick == InitPick /\ [][NextPick]_vars

-----------------------------------------------------------------------------
(* The same effective base options handed over in each of the four variants *)

Variants == {"parsed", "enum", "raw", "path"}

InitVariants ==
    /\ base \in {b \in CompilerOptionsSet : "target" \in DOMAIN b}
    /\ forcedV \in ForcedOptions
    /\ byVariant = Empty
    /\ disk \in {d \in Disks : convertCompilerOptionsFromJson(d.compilerOptions) = base}
    /\ tsconfig = AbsentTs /\ supplied = AbsentTs /\ calls = 0 /\ result = NotCalled
    /\ PickIdle

Record(v, out) ==
    /\ v \notin DOMAIN byVariant
    /\ ~out.threw
    /\ byVariant' = [w \in DOMAIN byVariant \cup {v} |->
                        IF w = v THEN out.parsedCommandLine.options ELSE byVariant[w]]
    /\ UNCHANGED <<base, forcedV, normalizerVars, pickVars>>

VariantParsed ==
    \E cwd \in Cwds, f \in FileLists :
        Record("parsed", getParsedCommandLine(disk, cwd, ParsedTs(base, f), forcedV))

VariantEnum ==
    \E cwd \in Cwds :
        Record("enum", getParsedCommandLine(disk, cwd, OptionsTs(base), forcedV))

VariantRaw ==
    \E cwd \in Cwds, raw \in RawOptionsSet :
        /\ convertCompilerOptionsFromJson(raw) = base
        /\ Record("raw", getParsedCommandLine(disk, cwd, OptionsTs(raw), forcedV))

VariantPath ==
    \E cwd \in Cwds, path \in ConfigPaths :
        Record("path", getParsedCommandLine(disk, cwd, StringTs(path), forcedV))

NextVariants == VariantParsed \/ VariantEnum \/ VariantRaw \/ VariantPath

SpecVariants == InitVariants /\ [][NextVariants]_vars

-----------------------------------------------------------------------------
(* Properties *)

Returns == result.called /\ ~result.out.threw
Options == result.out.parsedCommandLine.options
Original == result.out.originalCompilerOptions

\* o specifies the value v for option k
Holds(o, k, v) == k \in DOMAIN o /\ o[k] = v

\* C1: whenever getParsedCommandLine returns, whatever the input variant, every
\* key of forcedCompilerOptions holds the forced value in parsedCommandLine.options
C1_ForcedOverridesWin ==
    Returns => \A k \in DOMAIN result.forced : Holds(Options, k, result.forced[k])

\* a resolver function that switches declaration off met a forced declaration,
\* and a user option met a different forced value
C1_Witness ==
    /\ Returns
    /\ isTsConfigResolver(result.given)
    /\ result.given.fn = "declarationOff"
    /\ Holds(result.forced, "declaration", "true")
    /\ Holds(result.forced, "target", "2")
    /\ Holds(convertCompilerOptionsFromJson(disk.compilerOptions), "target", "1")
    /\ result.cwd = Proj

\* the options the base input specifies by itself: the user's options, the
\* configuration file's options, or what the resolver returns for them
BaseOptions(d, cwd, t) ==
    LET path == ensureAbsolute(cwd, IF t.type = "string" THEN t.str
                                    ELSE IF isTsConfigResolverWithFileName(t) THEN t.fileName
                                    ELSE TsconfigJson)
        file == IF fileExistsSync(path)
                THEN convertCompilerOptionsFromJson(d.compilerOptions) ELSE Empty
    IN  IF isParsedCommandLine(t) THEN t.options
        ELSE IF isCompilerOptions(t) THEN t.props
        ELSE IF isRawCompilerOptions(t) THEN convertCompilerOptionsFromJson(t.props)
        ELSE IF isTsConfigResolver(t) THEN CallHook(t.fn, file)
        ELSE IF isTsConfigResolverWithFileName(t) THEN CallHook(t.hook, file)
        ELSE file

\* C2: originalCompilerOptions holds a forced value for a key only if the base
\* input specified that very value for the key
C2_OriginalExcludesForced ==
    Returns =>
        \A k \in DOMAIN result.forced :
            Holds(Original, k, result.forced[k]) =>
                Holds(BaseOptions(disk, result.cwd, result.given), k, result.forced[k])

Populated(v) == v # Undefined

\* C3: with preferAmbient = true the ambient file name is returned whenever it is
\* present and the concrete one otherwise, so the result is defined as soon as
\* one of the two fields is, and is the ambient path when both are
C3_AmbientPreferred ==
    (picked # NotPicked /\ preferAmbient) =>
        /\ Populated(ref.resolvedAmbientFileName) => picked = ref.resolvedAmbientFileName
        /\ ~Populated(ref.resolvedAmbientFileName) => picked = ref.resolvedFileName
        /\ (Populated(ref.resolvedAmbientFileName) \/ Populated(ref.resolvedFileName))
              => Populated(picked)

\* both fields populated, the ambient one with the empty string
C3_Witness ==
    /\ picked # NotPicked /\ preferAmbient
    /\ ref.resolvedAmbientFileName = <<>>
    /\ ref.resolvedFileName \in ConcretePaths

\* C4: with preferAmbient = false the result is resolvedFileName, whatever the
\* ambient field holds: undefined for an ambient-only or empty record
C4_ConcreteOnly ==
    (picked # NotPicked /\ ~preferAmbient) => picked = ref.resolvedFileName

\* an ambient-only record yields undefined
C4_Witness ==
    /\ picked = Undefined /\ ~preferAmbient
    /\ ref.resolvedAmbientFileName \in AmbientPaths
    /\ ref.resolvedFileName = Undefined

\* the caller named a configuration file: a path string or a {fileName, hook} record
ExplicitPath(t) == t.type = "string" \/ isTsConfigResolverWithFileName(t)
NamedPath(t) == IF t.type = "string" THEN t.str ELSE t.fileName

\* C5: an explicitly named configuration file that does not exist at its absolute
\* path makes the call fail with a message naming that path; nothing is returned,
\* no hook is invoked and no file is read
C5_MissingExplicitPathFails ==
    (/\ result.called
     /\ ExplicitPath(result.given)
     /\ ~fileExistsSync(ensureAbsolute(result.cwd, NamedPath(result.given))))
    => /\ result.out.threw
       /\ result.out.error.name = "ReferenceError"
       /\ result.out.error.message =
            <<"The given tsconfig: '">>
              \o ensureAbsolute(result.cwd, NamedPath(result.given))
              \o <<"' doesn't exist!">>
       /\ result.out.parsedCommandLine = NoParsedCommandLine
       /\ result.out.hookCalls = 0
       /\ result.out.fileReads = 0

\* a {fileName, hook} record naming a relative path that is missing under cwd
C5_Witness ==
    /\ result.called /\ result.out.threw
    /\ isTsConfigResolverWithFileName(result.given)
    /\ result.given.fileName = TsconfigJson
    /\ result.cwd = Bare
    /\ result.out.error.message =
         <<"The given tsconfig: '", "/", "bare", "/", "tsconfig", ".json", "' doesn't exist!">>

\* C6: the call fails only for an explicitly named configuration file that does
\* not exist; with nothing supplied, or with a bare resolver function, and no
\* tsconfig.json in cwd it returns the forced options over the defaults
C6_OnlyMissingExplicitPathFails ==
    /\ (result.called /\ result.out.threw) =>
          /\ ExplicitPath(result.given)
          /\ ~fileExistsSync(ensureAbsolute(result.cwd, NamedPath(result.given)))
    /\ (result.called /\ result.given.type = "undefined" /\ result.cwd = Bare) =>
          (~result.out.threw /\ Options = result.forced)

RECURSIVE WithoutNonDeclarations(_)
WithoutNonDeclarations(files) ==
    IF files = <<>> THEN <<>>
    ELSE IF EndsWith(Head(files), DECLARATION_EXTENSION)
         THEN <<Head(files)>> \o WithoutNonDeclarations(Tail(files))
         ELSE WithoutNonDeclarations(Tail(files))

\* C7: every returned file name ends with the declaration extension, and the
\* returned list is the list before filtering without its other entries
C7_OnlyDeclarationFiles ==
    Returns =>
        LET fileNames == result.out.parsedCommandLine.fileNames
        IN  /\ \A i \in 1..Len(fileNames) : EndsWith(fileNames[i], DECLARATION_EXTENSION)
            /\ fileNames = WithoutNonDeclarations(result.out.unfiltered)

\* a configuration file listing a declaration file and a source file
C7_Witness ==
    /\ Returns
    /\ result.given.type = "string"
    /\ Len(result.out.unfiltered) = 2
    /\ result.out.parsedCommandLine.fileNames = <<Proj \o <<"/", "types", ".d", ".ts">>>>

DetectionCases(t) ==
    {c \in {"isParsedCommandLine", "isCompilerOptions", "isRawCompilerOptions",
            "isTsConfigResolver", "isTsConfigResolverWithFileName", "pathOrAbsent"} :
        CASE c = "isParsedCommandLine" -> isParsedCommandLine(t)
          [] c = "isCompilerOptions" -> isCompilerOptions(t)
          [] c = "isRawCompilerOptions" -> isRawCompilerOptions(t)
          [] c = "isTsConfigResolver" -> isTsConfigResolver(t)
          [] c = "isTsConfigResolverWithFileName" -> isTsConfigResolverWithFileName(t)
          [] c = "pathOrAbsent" -> t.type \in {"string", "undefined"}}

\* C9: exactly one detection case holds of every configuration input, and no
\* object is handed on as a path
C9_DetectionExclusive ==
    /\ Cardinality(DetectionCases(tsconfig)) = 1
    /\ (result.called /\ IsObject(result.given)) => result.out.error.name # "TypeError"

\* C10: the caller's configuration input is never changed by a call
C10_InputUnchanged == tsconfig = supplied

====
